---- MODULE Spec2Model ----
(***************************************************************************)
(* Model of gear_optimizer.py: the Optimizer that enumerates the           *)
(* cross-product of the legal items of every active slot, computes the     *)
(* damage reductions of each loadout, scales them by the user's weights    *)
(* and prints the display_num best loadouts in increasing order.           *)
(*                                                                         *)
(* Python floats are modelled as exact rationals <<n, d>> with d > 0 in    *)
(* lowest terms, so equal numbers are equal values.                        *)
(***************************************************************************)
EXTENDS Integers, Sequences, FiniteSets, TLC

VARIABLES
  items,            \* self.items: slot type -> sequence of [name, data] (dict order)
  whitelist,        \* self.whitelist: [none |-> BOOLEAN, names |-> sequence]
  blacklist,        \* self.blacklist: sequence of item names
  item_types,       \* self.item_types: sequence of slot types
  type_scaling,     \* self.type_scaling: sequence of [key, value] (dict order)
  expected_damage,  \* self.expected_damage
  skip_weapon,      \* self.skip_weapon
  display_num,      \* self.display_num
  gear_data,        \* self.gear_data: sequence of [data, gear, loadout]
  gear_list,        \* optimize_gear's local gear_list
  consumed,         \* number of tuples itertools.product has yielded so far
  i,                \* index of the print loop of optimize_gear (0-based)
  printed,          \* the results print_results has written, in order
  pc,               \* position in optimize_gear
  run,              \* which Optimizer of the process this is (1 or 2)
  first_output      \* what the first Optimizer printed, once a second one runs

vars == <<items, whitelist, blacklist, item_types, type_scaling, expected_damage,
          skip_weapon, display_num, gear_data, gear_list, consumed, i, printed,
          pc, run, first_output>>

config == <<items, whitelist, blacklist, item_types, type_scaling, expected_damage,
            skip_weapon, display_num>>

-----------------------------------------------------------------------------
(* Bounds of the model *)

\* items per slot in a catalog
MaxItems == 2
\* largest display_num tried
MaxDisplay == 2

-----------------------------------------------------------------------------
(* Exact arithmetic standing for Python's float arithmetic *)

Abs(n) == IF n < 0 THEN -n ELSE n

RECURSIVE GCD(_, _)
GCD(a, b) == IF b = 0 THEN a ELSE GCD(b, a % b)

\* the rational n/d (d # 0) in lowest terms with a positive denominator
Norm(n, d) ==
  LET g == GCD(Abs(n), Abs(d))
      s == IF d < 0 THEN -1 ELSE 1
  IN  <<(s * n) \div g, (s * d) \div g>>

\* float(x) of a JSON integer
Float(n) == <<n, 1>>

RAdd(a, b) == Norm(a[1] * b[2] + b[1] * a[2], a[2] * b[2])
RSub(a, b) == Norm(a[1] * b[2] - b[1] * a[2], a[2] * b[2])
RMul(a, b) == Norm(a[1] * b[1], a[2] * b[2])
RDiv(a, b) == Norm(a[1] * b[2], a[2] * b[1])
RLess(a, b) == a[1] * b[2] < b[1] * a[2]
RLeq(a, b) == a[1] * b[2] <= b[1] * a[2]
RMin(a, b) == IF RLess(b, a) THEN b ELSE a
RMax(a, b) == IF RLess(a, b) THEN b ELSE a
\* a // b for b > 0: the floor of the quotient, as a float
RFloorDiv(a, b) == Float((a[1] * b[2]) \div (a[2] * b[1]))

Zero == Float(0)
One == Float(1)

-----------------------------------------------------------------------------
(* Membership tests of Python lists *)

InList(x, list) == \E k \in 1..Len(list) : list[k] = x

\* `not self.whitelist`: None and the empty list are both falsy
NotWhitelist == whitelist.none \/ Len(whitelist.names) = 0

-----------------------------------------------------------------------------
(* Gear: the loadout object built from one tuple of the product *)

\* Gear.__init__: setattr(self, item["type"], Item(name, data)) for every item
\* of the tuple; a later item of the same type replaces the earlier one in
\* place. The gear is the sequence of its attributes in vars(self) order.
RECURSIVE SetAttrs(_, _)
SetAttrs(gear, loadout) ==
  IF loadout = <<>> THEN gear
  ELSE LET item == Head(loadout)
           at == {k \in 1..Len(gear) : gear[k].type = item.type}
       IN  SetAttrs(IF at = {} THEN Append(gear, item)
                    ELSE [k \in 1..Len(gear) |->
                            IF k \in at THEN item ELSE gear[k]],
                    Tail(loadout))

Gear(loadout) == SetAttrs(<<>>, loadout)

-----------------------------------------------------------------------------
(* Damage reduction of a gear *)

\* the sum of float(item.data[property]) over the items that define it
RECURSIVE get_property_sum(_, _)
get_property_sum(property, gear) ==
  IF gear = <<>> THEN Zero
  ELSE LET item == Head(gear)
           rest == get_property_sum(property, Tail(gear))
       IN  IF property \in DOMAIN item.data
           THEN RAdd(Float(item.data[property]), rest)
           ELSE rest

\* 1 - product of (1 - r)
RECURSIVE Damage(_)
Damage(reductions) ==
  IF reductions = <<>> THEN One
  ELSE RMul(RSub(One, Head(reductions)), Damage(Tail(reductions)))

calc_general_reduction(reductions) ==
  IF Len(reductions) = 0 THEN Zero ELSE RSub(One, Damage(reductions))

\* without the cap
calc_protection_reduction_uncapped(protection) == RMul(protection, Norm(4, 100))

\* min(protection * 0.04, 0.8)
calc_protection_reduction(protection) ==
  RMin(RMul(protection, Norm(4, 100)), Norm(8, 10))

\* the divisor 2 + toughness / 4 of calc_armor_reduction
ArmorDivisor(toughness) == RAdd(Float(2), RDiv(toughness, Float(4)))

\* float division by zero raises ZeroDivisionError
ArmorRaises(gear) == ArmorDivisor(get_property_sum("armor_t", gear)) = Zero

\* min(20, max(armor / 5, armor - expected_damage / (2 + toughness / 4))) / 25
calc_armor_reduction(armor, toughness, damage) ==
  RDiv(RMin(Float(20),
            RMax(RDiv(armor, Float(5)),
                 RSub(armor, RDiv(damage, ArmorDivisor(toughness))))),
       Float(25))

\* min((evasion // 5) * 0.2, 0.8)
calc_evasion_reduction(evasion) ==
  RMin(RMul(RFloorDiv(evasion, Float(5)), Norm(2, 10)), Norm(8, 10))

\* (20 + health) * (1 + health_p) * (1 / (1 - reduction))
calc_effective_health(reduction, gear) ==
  LET health == RAdd(Float(20), get_property_sum("health", gear))
      scaled == RMul(health, RAdd(One, get_property_sum("health_p", gear)))
  IN  RMul(scaled, RDiv(One, RSub(One, reduction)))

calc_spec_protection_reduction(protection, spec) ==
  calc_protection_reduction(RAdd(protection, RMul(spec, Float(2))))

calc_spec_evasion_reduction(evasion, spec) ==
  calc_evasion_reduction(RAdd(evasion, RMul(spec, Float(2))))

calc_damage_reduction(gear, damage) ==
  LET protection == get_property_sum("protection", gear)
      armor == get_property_sum("armor", gear)
      toughness == get_property_sum("armor_t", gear)
      evasion == get_property_sum("evasion", gear)
      proj_protection == get_property_sum("proj_protection", gear)
      blast_protection == get_property_sum("blast_protection", gear)
      fire_protection == get_property_sum("fire_protection", gear)
      feather_falling == get_property_sum("feather_falling", gear)
      ability_evasion == get_property_sum("ability_evasion", gear)
      melee_evasion == get_property_sum("melee_evasion", gear)
      p == calc_protection_reduction(protection)
      a == calc_armor_reduction(armor, toughness, damage)
      e == calc_evasion_reduction(evasion)
      general == calc_general_reduction(<<p, a, e>>)
  IN  [protection |-> p,
       armor |-> a,
       evasion |-> e,
       general |-> general,
       true_effective_health |-> calc_effective_health(general, gear),
       projectile |-> calc_spec_protection_reduction(protection, proj_protection),
       blast |-> calc_spec_protection_reduction(protection, blast_protection),
       fire |-> calc_spec_protection_reduction(protection, fire_protection),
       feather_falling |-> calc_spec_protection_reduction(protection, feather_falling),
       ability |-> calc_spec_evasion_reduction(evasion, ability_evasion),
       melee |-> calc_spec_evasion_reduction(evasion, melee_evasion)]

-----------------------------------------------------------------------------
(* Scaling by the user's weights *)

\* float(x) of the text of a weight, or of the default weight 1
ParseFloat(text) ==
  CASE text = "0.5" -> <<1, 2>>
    [] text = "1" -> <<1, 1>>

\* the sub-types of protection without the general type
ProtectionTypesWithoutGeneral == <<"projectile", "fire", "blast", "feather_falling">>

ProtectionTypes == <<"protection", "projectile", "fire", "blast", "feather_falling">>
ArmorTypes == <<"armor">>
EvasionTypes == <<"evasion", "ability", "melee">>

\* sum(float(x[1]) for x in scaling.items() if x[0] in damage_types)
RECURSIVE ScaleSum(_, _)
ScaleSum(scaling, damage_types) ==
  IF scaling = <<>> THEN Zero
  ELSE LET x == Head(scaling)
           rest == ScaleSum(Tail(scaling), damage_types)
       IN  IF InList(x.key, damage_types)
           THEN RAdd(ParseFloat(x.value), rest)
           ELSE rest

\* the loop adding reduction_data[type] * scale for every type of the scaling
\* that is in damage_types
RECURSIVE ScaledSum(_, _, _)
ScaledSum(reduction_data, scaling, damage_types) ==
  IF scaling = <<>> THEN Zero
  ELSE LET x == Head(scaling)
           rest == ScaledSum(reduction_data, Tail(scaling), damage_types)
       IN  IF InList(x.key, damage_types)
           THEN RAdd(RMul(reduction_data[x.key], ParseFloat(x.value)), rest)
           ELSE rest

\* the earlier revision: the general reduction takes the share of the scale
\* that the sub-types leave
scale_reduction_type_remainder(reduction_data, damage_types, scaling) ==
  LET sub_types == Tail(damage_types)
      total_scale == RSub(One, ScaleSum(scaling, sub_types))
  IN  RAdd(RMul(reduction_data[Head(damage_types)], total_scale),
           ScaledSum(reduction_data, scaling, sub_types))

scale_reduction_type(reduction_data, damage_types, scaling) ==
  LET total_scale == RMax(ScaleSum(scaling, damage_types), One)
  IN  RDiv(ScaledSum(reduction_data, scaling, damage_types), total_scale)

calc_scaled_reduction(reduction_data, gear, scaling) ==
  LET sp == scale_reduction_type(reduction_data, ProtectionTypes, scaling)
      sa == scale_reduction_type(reduction_data, ArmorTypes, scaling)
      se == scale_reduction_type(reduction_data, EvasionTypes, scaling)
      scaled == calc_general_reduction(<<sp, sa, se>>)
      more == [scaled_protection |-> sp,
               scaled_armor |-> sa,
               scaled_evasion |-> se,
               scaled |-> scaled,
               scaled_effective_health |-> calc_effective_health(scaled, gear)]
  IN  [k \in DOMAIN reduction_data \cup DOMAIN more |->
         IF k \in DOMAIN more THEN more[k] ELSE reduction_data[k]]

-----------------------------------------------------------------------------
(* The legal items of every active slot *)

\* without the blacklist: the whitelist alone decides
legal_item_whitelist_only(item) == NotWhitelist \/ InList(item, whitelist.names)

legal_item(item) ==
  LET legal_name == ~InList(item, blacklist)
                    /\ (NotWhitelist \/ InList(item, whitelist.names))
      legal_type == TRUE
      legal_tier == TRUE
  IN  legal_name /\ legal_type /\ legal_tier

Entry(type, item) == [type |-> type, name |-> item.name, data |-> item.data]

\* legal_list of one type: its legal items, in the catalog's order
RECURSIVE LegalList(_, _)
LegalList(type, entries) ==
  IF entries = <<>> THEN <<>>
  ELSE LET rest == LegalList(type, Tail(entries))
       IN  IF legal_item(Head(entries).name)
           THEN <<Entry(type, Head(entries))>> \o rest
           ELSE rest

\* without the blacklist test: every item that is not legal
TypeListUnfiltered(type, entries) ==
  LET rest == SelectSeq(entries, LAMBDA e : ~legal_item(e.name))
  IN  [k \in 1..Len(rest) |-> Entry(type, rest[k])]

\* type_list of one type: the items that are not legal and not blacklisted
RECURSIVE TypeList(_, _)
TypeList(type, entries) ==
  IF entries = <<>> THEN <<>>
  ELSE LET rest == TypeList(type, Tail(entries))
       IN  IF ~legal_item(Head(entries).name) /\ ~InList(Head(entries).name, blacklist)
           THEN <<Entry(type, Head(entries))>> \o rest
           ELSE rest

\* without the fallback: the legal items, even when there is none
CandidatesLegalOnly(type) == LegalList(type, items[type])

\* what generate_gear_list appends for one type
Candidates(type) ==
  LET legal_list == LegalList(type, items[type])
      type_list == TypeList(type, items[type])
  IN  IF legal_list # <<>> THEN legal_list ELSE type_list

SkipType(type) == type = "weapon" /\ skip_weapon

RECURSIVE GearListOf(_)
GearListOf(types) ==
  IF types = <<>> THEN <<>>
  ELSE IF SkipType(Head(types)) THEN GearListOf(Tail(types))
       ELSE <<Candidates(Head(types))>> \o GearListOf(Tail(types))

generate_gear_list == GearListOf(item_types)

-----------------------------------------------------------------------------
(* itertools.product over gear_list: the tuples in odometer order, the last *)
(* list varying fastest; one empty tuple for no list, none if one is empty  *)

RECURSIVE ProductSize(_)
ProductSize(lists) ==
  IF lists = <<>> THEN 1 ELSE Len(Head(lists)) * ProductSize(Tail(lists))

\* the lists walked in step, as zip would
ProductTupleZipped(lists, k) ==
  [p \in 1..Len(lists) |-> lists[p][(k % Len(lists[p])) + 1]]

\* the k-th tuple (k from 0) of the product
RECURSIVE ProductTuple(_, _)
ProductTuple(lists, k) ==
  IF lists = <<>> THEN <<>>
  ELSE LET m == ProductSize(Tail(lists))
       IN  <<Head(lists)[(k \div m) + 1]>> \o ProductTuple(Tail(lists), k % m)

-----------------------------------------------------------------------------
(* list.sort(key = scaled_effective_health): a stable ascending sort *)

SortKey(x) == x.data.scaled_effective_health

\* an element goes after every element whose key is not greater than its own
RECURSIVE InsertByKey(_, _)
InsertByKey(sorted, x) ==
  IF sorted = <<>> THEN <<x>>
  ELSE IF RLess(SortKey(x), SortKey(Head(sorted)))
       THEN <<x>> \o sorted
       ELSE <<Head(sorted)>> \o InsertByKey(Tail(sorted), x)

RECURSIVE SortByKey(_, _)
SortByKey(sorted, list) ==
  IF list = <<>> THEN sorted
  ELSE SortByKey(InsertByKey(sorted, Head(list)), Tail(list))

Sorted(list) == SortByKey(<<>>, list)

Max(a, b) == IF a > b THEN a ELSE b

\* one result too many
starting_idx_off_by_one(len, num) == Max(len - num - 1, 0)

starting_idx(len, num) == Max(len - num, 0)

-----------------------------------------------------------------------------
(* The inputs tried: catalogs and run options *)

Item(name, data) == [name |-> name, data |-> data]

BootsPool ==
  <<Item("boots_a", [protection |-> 5]),
    Item("boots_b", [protection |-> 10]),
    Item("boots_c", [armor |-> -5, evasion |-> 7, melee_evasion |-> 2])>>

ChestPool ==
  <<Item("chest_a", [armor |-> 30, armor_t |-> 4, protection |-> 12,
                     proj_protection |-> 3, health |-> 4, health_p |-> 1]),
    Item("chest_b", [evasion |-> 25, fire_protection |-> 2]),
    Item("chest_c", [armor |-> 4, armor_t |-> -8])>>

WeaponPool ==
  <<Item("sword", [protection |-> 3, ability_evasion |-> 1])>>

Min(a, b) == IF a < b THEN a ELSE b

\* the runs of at most MaxItems consecutive items of a pool
Windows(pool) ==
  {SubSeq(pool, s, s + n - 1) :
     <<s, n>> \in {w \in (1..Len(pool)) \X (1..MaxItems) : w[1] + w[2] - 1 <= Len(pool)}}

Catalogs ==
  {[boots |-> b, chest |-> c, weapon |-> WeaponPool] :
     b \in Windows(BootsPool), c \in Windows(ChestPool)}

ItemTypeLists ==
  {<<"boots">>, <<"chest", "boots">>, <<"boots", "chest", "weapon">>}

Whitelists ==
  {[none |-> TRUE, names |-> <<>>],
   [none |-> FALSE, names |-> <<"nonexistent_item">>],
   [none |-> FALSE, names |-> <<"boots_b", "chest_a">>]}

Blacklists ==
  {<<>>, <<"boots_a">>, <<"boots_a", "boots_b", "chest_b">>}

Scale(key, value) == [key |-> key, value |-> value]

\* parse_arguments' default of --scaling
DefaultScaling ==
  <<Scale("protection", "1"), Scale("armor", "1"), Scale("evasion", "1")>>

Scalings ==
  {<<>>,
   DefaultScaling,
   DefaultScaling \o <<Scale("projectile", "0.5"), Scale("melee", "1")>>,
   <<Scale("projectile", "1"), Scale("fire", "1"), Scale("ability", "0.5")>>}

ExpectedDamages == {Float(20), Float(40)}

-----------------------------------------------------------------------------
(* The program *)

\* a list shared between Optimizer objects
KeptGearData(old) == old

\* Optimizer.__init__: the options are stored and gear_data starts empty
NewGearData(old) == <<>>

Init ==
  /\ items \in Catalogs
  /\ whitelist \in Whitelists
  /\ blacklist \in Blacklists
  /\ item_types \in ItemTypeLists
  /\ type_scaling \in Scalings
  /\ expected_damage \in ExpectedDamages
  /\ skip_weapon \in BOOLEAN
  /\ display_num \in 0..MaxDisplay
  /\ gear_data = NewGearData(<<>>)
  /\ gear_list = <<>>
  /\ consumed = 0
  /\ i = 0
  /\ printed = <<>>
  /\ pc = "Idle"
  /\ run = 1
  /\ first_output = <<>>

\* optimize_gear, line 61: the gear list is generated
Generate ==
  /\ pc = "Idle"
  /\ gear_list' = generate_gear_list
  /\ consumed' = 0
  /\ pc' = "Enumerating"
  /\ UNCHANGED <<config, gear_data, i, printed, run, first_output>>

\* the gear built from the next tuple of the product
NextGear == Gear(ProductTuple(gear_list, consumed))

\* the entry that optimize_gear appends for a gear
Evaluated(gear) ==
  [data |-> calc_scaled_reduction(calc_damage_reduction(gear, expected_damage),
                                  gear, type_scaling),
   gear |-> gear]

\* optimize_gear, lines 62-66: the next tuple of the product is evaluated
Evaluate ==
  /\ pc = "Enumerating"
  /\ consumed < ProductSize(gear_list)
  /\ ~ArmorRaises(NextGear)
  /\ gear_data' = Append(gear_data, Evaluated(NextGear))
  /\ consumed' = consumed + 1
  /\ UNCHANGED <<config, gear_list, i, printed, pc, run, first_output>>

\* the same step when calc_armor_reduction divides by zero: the exception
\* leaves optimize_gear and nothing is printed
EvaluateRaises ==
  /\ pc = "Enumerating"
  /\ consumed < ProductSize(gear_list)
  /\ ArmorRaises(NextGear)
  /\ pc' = "Error"
  /\ UNCHANGED <<config, gear_data, gear_list, consumed, i, printed, run, first_output>>

\* optimize_gear, lines 69-70: the product is exhausted, gear_data is sorted
Rank ==
  /\ pc = "Enumerating"
  /\ consumed = ProductSize(gear_list)
  /\ gear_data' = Sorted(gear_data)
  /\ i' = starting_idx(Len(gear_data), display_num)
  /\ pc' = "Ranking"
  /\ UNCHANGED <<config, gear_list, consumed, printed, run, first_output>>

\* optimize_gear, lines 71-72: one result is printed
PrintResults ==
  /\ pc = "Ranking"
  /\ i < Len(gear_data)
  /\ printed' = Append(printed, gear_data[i + 1])
  /\ i' = i + 1
  /\ UNCHANGED <<config, gear_data, gear_list, consumed, pc, run, first_output>>

\* optimize_gear returns
Return ==
  /\ pc = "Ranking"
  /\ i >= Len(gear_data)
  /\ pc' = "Done"
  /\ UNCHANGED <<config, gear_data, gear_list, consumed, i, printed, run, first_output>>

Next == Generate \/ Evaluate \/ EvaluateRaises \/ Rank \/ PrintResults \/ Return

Spec == Init /\ [][Next]_vars

\* a second Optimizer built from the same arguments, once the first has ended
Rerun ==
  /\ pc \in {"Done", "Error"}
  /\ run = 1
  /\ first_output' = <<pc, printed>>
  /\ gear_data' = NewGearData(gear_data)
  /\ gear_list' = <<>>
  /\ consumed' = 0
  /\ i' = 0
  /\ printed' = <<>>
  /\ pc' = "Idle"
  /\ run' = 2
  /\ UNCHANGED config

NextTwice == Next \/ Rerun

SpecTwice == Init /\ [][NextTwice]_vars

-----------------------------------------------------------------------------
(* Vocabulary of the properties *)

Range(seq) == {seq[k] : k \in 1..Len(seq)}

\* the active slots that are searched, in the configured order
ActiveTypes == SelectSeq(item_types, LAMBDA t : ~(t = "weapon" /\ skip_weapon))

Started == pc # "Idle"

\* the eligibility policy, on sets
Blacklisted(name) == name \in Range(blacklist)
Whitelisted(name) ==
  whitelist.none \/ whitelist.names = <<>> \/ name \in Range(whitelist.names)
Eligible(name) == ~Blacklisted(name) /\ Whitelisted(name)

SlotNames(type) == {x.name : x \in Range(items[type])}
EligibleNames(type) == {n \in SlotNames(type) : Eligible(n)}
AllowedNames(type) == {n \in SlotNames(type) : ~Blacklisted(n)}

\* where an item stands in its slot of the catalog
CatalogIndex(type, name) == CHOOSE k \in 1..Len(items[type]) : items[type][k].name = name

\* list holds exactly the items of the slot named in names, once each, in the
\* catalog's order and with the catalog's data
ListIsExactly(list, type, names) ==
  /\ {x.name : x \in Range(list)} = names
  /\ Len(list) = Cardinality(names)
  /\ \A x \in Range(list) :
       /\ x.type = type
       /\ x.data = items[type][CatalogIndex(type, x.name)].data
  /\ \A a, b \in 1..Len(list) :
       a < b => CatalogIndex(type, list[a].name) < CatalogIndex(type, list[b].name)

\* every item name that shows up in a list of loadout entries
NamesIn(entries) == UNION {{x.name : x \in Range(e.gear)} : e \in Range(entries)}

C2_EligibilityPolicy ==
  Started =>
    /\ \A p \in 1..Len(ActiveTypes) :
         EligibleNames(ActiveTypes[p]) # {} =>
           ListIsExactly(gear_list[p], ActiveTypes[p], EligibleNames(ActiveTypes[p]))
    /\ \A p \in 1..Len(gear_list) : \A x \in Range(gear_list[p]) : ~Blacklisted(x.name)
    /\ \A n \in NamesIn(gear_data) \cup NamesIn(printed) : ~Blacklisted(n)

\* a result was printed from slots that hold an eligible item next to a
\* blacklisted one, and next to one that the whitelist leaves out
C2_Witness ==
  /\ pc = "Done"
  /\ printed # <<>>
  /\ ~whitelist.none
  /\ \E p \in 1..Len(ActiveTypes) :
       /\ EligibleNames(ActiveTypes[p]) # {}
       /\ \E n \in SlotNames(ActiveTypes[p]) : Blacklisted(n)
  /\ \E p \in 1..Len(ActiveTypes) :
       /\ EligibleNames(ActiveTypes[p]) # {}
       /\ \E n \in SlotNames(ActiveTypes[p]) : ~Blacklisted(n) /\ ~Whitelisted(n)

-----------------------------------------------------------------------------
(* Ranking *)

Score(e) == e.data.scaled_effective_health

Count(list, x) == Cardinality({k \in 1..Len(list) : list[k] = x})

\* the evaluated loadouts that were not printed
NotPrinted == {x \in Range(gear_data) : Count(printed, x) < Count(gear_data, x)}

-----------------------------------------------------------------------------
(* Scaling *)

HasWeight(key) == \E k \in 1..Len(type_scaling) : type_scaling[k].key = key

\* the weight of a damage type, 0 when it has none
WeightOf(key) ==
  IF HasWeight(key)
  THEN ParseFloat(type_scaling[CHOOSE k \in 1..Len(type_scaling) :
                                 type_scaling[k].key = key].value)
  ELSE Zero

Weighted(d, key) == RMul(d[key], WeightOf(key))

Sum2(a, b) == RAdd(a, b)
Sum4(a, b, c, d) == RAdd(RAdd(a, b), RAdd(c, d))

\* x = numerator / max(weights, 1)
IsQuotient(x, numerator, weights) == RMul(x, RMax(weights, One)) = numerator

\* the sub-types alone
SubTypesOnly(d) ==
  /\ IsQuotient(d.scaled_protection,
                Sum4(Weighted(d, "projectile"), Weighted(d, "blast"),
                     Weighted(d, "fire"), Weighted(d, "feather_falling")),
                Sum4(WeightOf("projectile"), WeightOf("blast"),
                     WeightOf("fire"), WeightOf("feather_falling")))
  /\ d.scaled_armor = Zero
  /\ IsQuotient(d.scaled_evasion,
                Sum2(Weighted(d, "ability"), Weighted(d, "melee")),
                Sum2(WeightOf("ability"), WeightOf("melee")))

\* the general type of the category together with its sub-types
GeneralAndSubTypes(d) ==
  /\ IsQuotient(d.scaled_protection,
                RAdd(Weighted(d, "protection"),
                     Sum4(Weighted(d, "projectile"), Weighted(d, "blast"),
                          Weighted(d, "fire"), Weighted(d, "feather_falling"))),
                RAdd(WeightOf("protection"),
                     Sum4(WeightOf("projectile"), WeightOf("blast"),
                          WeightOf("fire"), WeightOf("feather_falling"))))
  /\ IsQuotient(d.scaled_armor, Weighted(d, "armor"), WeightOf("armor"))
  /\ IsQuotient(d.scaled_evasion,
                RAdd(Weighted(d, "evasion"),
                     Sum2(Weighted(d, "ability"), Weighted(d, "melee"))),
                RAdd(WeightOf("evasion"),
                     Sum2(WeightOf("ability"), WeightOf("melee"))))

ScaledIsGeneral(d) ==
  /\ d.scaled_protection = d.protection
  /\ d.scaled_armor = d.armor
  /\ d.scaled_evasion = d.evasion
  /\ d.scaled = d.general
  /\ d.scaled_effective_health = d.true_effective_health

\* the health of a gear before any reduction
RawHealth(gear) ==
  RMul(RAdd(Float(20), get_property_sum("health", gear)),
       RAdd(One, get_property_sum("health_p", gear)))

ScaledIsZero(e) ==
  /\ e.data.scaled_protection = Zero
  /\ e.data.scaled_armor = Zero
  /\ e.data.scaled_evasion = Zero
  /\ e.data.scaled = Zero
  /\ e.data.scaled_effective_health = RawHealth(e.gear)

-----------------------------------------------------------------------------
(* Range of the reductions *)

Fractions ==
  {"protection", "armor", "evasion", "projectile", "blast", "fire",
   "feather_falling", "ability", "melee"}

Cap == Norm(8, 10)

\* the attribute sum a fraction is computed from
AttributeSum(fraction, gear) ==
  LET base(b, spec) == RAdd(get_property_sum(b, gear),
                            RMul(Float(2), get_property_sum(spec, gear)))
  IN  CASE fraction = "protection" -> get_property_sum("protection", gear)
        [] fraction = "armor" -> get_property_sum("armor", gear)
        [] fraction = "evasion" -> get_property_sum("evasion", gear)
        [] fraction = "projectile" -> base("protection", "proj_protection")
        [] fraction = "blast" -> base("protection", "blast_protection")
        [] fraction = "fire" -> base("protection", "fire_protection")
        [] fraction = "feather_falling" -> base("protection", "feather_falling")
        [] fraction = "ability" -> base("evasion", "ability_evasion")
        [] fraction = "melee" -> base("evasion", "melee_evasion")

\* C6 as claimed: every fraction of a loadout's reduction profile is in
\* [0, 1), and the combined reductions are below 1
C6_FractionsInUnitRange ==
  \A e \in Range(gear_data) :
    /\ \A f \in Fractions : RLeq(Zero, e.data[f]) /\ RLess(e.data[f], One)
    /\ RLess(e.data.general, One)
    /\ RLess(e.data.scaled, One)

\* C6 as the code has it: every fraction is at most 0.8, and is at least 0
\* when the attribute sum it is computed from is not negative (a negative
\* sum gives a negative fraction); the combined and the scaled combined
\* reduction are below 1, so calc_effective_health divides by more than 0
C6_ReductionRange ==
  \A e \in Range(gear_data) :
    /\ \A f \in Fractions :
         /\ RLeq(e.data[f], Cap)
         /\ RLeq(Zero, AttributeSum(f, e.gear)) => RLeq(Zero, e.data[f])
    /\ RLess(e.data.general, One)
    /\ RLess(e.data.scaled, One)
    /\ RLess(Zero, RSub(One, e.data.general))
    /\ RLess(Zero, RSub(One, e.data.scaled))

\* a loadout has one fraction at the cap and a negative one
C6_Witness ==
  \E e \in Range(gear_data) :
    /\ \E f \in Fractions : e.data[f] = Cap
    /\ \E f \in Fractions : RLess(e.data[f], Zero)
    /\ RLess(Zero, e.data.general)

-----------------------------------------------------------------------------
(* Enumeration *)

\* all tuples that take one item from each list
CrossProduct(lists) ==
  {t \in [1..Len(lists) -> UNION {Range(lists[p]) : p \in 1..Len(lists)}] :
     \A p \in 1..Len(lists) : t[p] \in Range(lists[p])}

RECURSIVE LenProduct(_, _)
LenProduct(lists, p) ==
  IF p > Len(lists) THEN 1 ELSE Len(lists[p]) * LenProduct(lists, p + 1)

Gears == {e.gear : e \in Range(gear_data)}

\* a tuple stands before another in the order of enumeration
PosIn(list, x) == CHOOSE k \in 1..Len(list) : list[k] = x
EnumBefore(g, h) ==
  \E p \in 1..Len(gear_list) :
    /\ \A q \in 1..(p - 1) : g[q] = h[q]
    /\ PosIn(gear_list[p], g[p]) < PosIn(gear_list[p], h[p])

\* C8: the gear list has one list per searched slot in the configured order
\* (a skipped weapon slot has none and is in no loadout); the loadouts
\* evaluated so far are distinct tuples of the cross-product, and once the
\* enumeration ends they are all of it, as many as the product of the sizes
C8_ExhaustiveEnumeration ==
  /\ Started =>
       /\ Len(gear_list) = Len(ActiveTypes)
       /\ \A p \in 1..Len(gear_list) :
            \A x \in Range(gear_list[p]) : x.type = ActiveTypes[p]
  /\ pc = "Enumerating" =>
       /\ Len(gear_data) = consumed
       /\ Gears \subseteq CrossProduct(gear_list)
       /\ Cardinality(Gears) = Len(gear_data)
  /\ pc \in {"Ranking", "Done"} =>
       /\ Gears = CrossProduct(gear_list)
       /\ Cardinality(Gears) = Len(gear_data)
       /\ Len(gear_data) = LenProduct(gear_list, 1)
  /\ skip_weapon =>
       \A e \in Range(gear_data) \cup Range(printed) :
         \A x \in Range(e.gear) : x.type # "weapon"

\* four loadouts of two slots were evaluated while the weapon slot, active,
\* was skipped
C8_Witness ==
  /\ pc = "Ranking"
  /\ skip_weapon
  /\ "weapon" \in Range(item_types)
  /\ Len(gear_list) = 2
  /\ Len(gear_data) = 4

-----------------------------------------------------------------------------
(* Two runs on the same arguments *)

-----------------------------------------------------------------------------
(* Phases *)

Phases == {"Idle", "Enumerating", "Ranking", "Done"}

\* the position moves along Idle -> Enumerating -> Ranking -> Done only
PhaseStep ==
  pc' # pc => <<pc, pc'>> \in {<<"Idle", "Enumerating">>,
                               <<"Enumerating", "Ranking">>,
                               <<"Ranking", "Done">>}

AllEvaluated ==
  /\ pc \in {"Ranking", "Done"}
  /\ consumed = LenProduct(gear_list, 1)
  /\ Len(gear_data) = consumed

\* C9: every step of the run keeps it in the phases Idle, Enumerating,
\* Ranking, Done and moves it forward in this order only, so that it ends in
\* Done; nothing is printed before every tuple of the product is evaluated
C9_PhasesAndTermination ==
  [][/\ PhaseStep
     /\ pc' \in Phases
     /\ printed' # <<>> => AllEvaluated']_vars

-----------------------------------------------------------------------------
(* A slot whose items are all blacklisted *)

BlockedSlot ==
  \E p \in 1..Len(ActiveTypes) : SlotNames(ActiveTypes[p]) \subseteq Range(blacklist)

\* C10: when all items of a searched slot are blacklisted, its list is empty,
\* so is the product, no loadout is evaluated, nothing is printed, and the
\* run goes on to Done without an error
C10_BlockedSlot ==
  BlockedSlot =>
    /\ Started =>
         /\ \E p \in 1..Len(gear_list) :
              /\ SlotNames(ActiveTypes[p]) \subseteq Range(blacklist)
              /\ gear_list[p] = <<>>
         /\ LenProduct(gear_list, 1) = 0
    /\ consumed = 0
    /\ gear_data = <<>>
    /\ printed = <<>>
    /\ pc \in Phases

\* such a run has ended although another slot had candidates and results
\* were asked for
C10_Witness ==
  /\ BlockedSlot
  /\ pc = "Done"
  /\ display_num > 0
  /\ \E p \in 1..Len(gear_list) : Len(gear_list[p]) >= 1

====
